---- MODULE Spec2Model ----
(***************************************************************************)
(* Numerical integration with adaptive refinement (src/main.rs): the three *)
(* quadrature rules, the Runge estimate and the driver loop of start().    *)
(*                                                                         *)
(* TNumber (f64) is modelled as binary floating point with round to        *)
(* nearest, ties to even, with a significand of MantBits bits and an       *)
(* unbounded exponent; usize is modelled as an unsigned word of WordBits   *)
(* bits.  Signed zero is not distinguished (no comparison or output of the *)
(* program depends on it but the printed sign of a zero).  The catalogue   *)
(* entries FUNCTIONS[2] and FUNCTIONS[3] (sin) are not modelled.           *)
(***************************************************************************)
EXTENDS Integers, Sequences, FiniteSets, TLC

MantBits == 4
WordBits == 7
MAX_ITERATIONS == 100000

WordMod == 2 ^ WordBits

(***************************************************************************)
(* TNumber: [k, m, e, ix].  k = "fin": the value m * 2^e, m odd or zero;   *)
(* k = "inf": m is the sign; k = "nan".  ix is the IEEE inexact flag       *)
(* accumulated over the operations that produced the value.                *)
(***************************************************************************)
Fin(m, e, ix) == [k |-> "fin", m |-> m, e |-> e, ix |-> ix]
Inf(s, ix) == [k |-> "inf", m |-> s, e |-> 0, ix |-> ix]
NaN(ix) == [k |-> "nan", m |-> 0, e |-> 0, ix |-> ix]

Sign(n) == IF n < 0 THEN -1 ELSE IF n > 0 THEN 1 ELSE 0
AbsInt(n) == IF n < 0 THEN -n ELSE n
Max(a, b) == IF a > b THEN a ELSE b
Min(a, b) == IF a < b THEN a ELSE b

RECURSIVE Normalize(_, _, _)
Normalize(m, e, ix) ==
    IF m = 0 THEN Fin(0, 0, ix)
    ELSE IF m % 2 = 0 THEN Normalize(m \div 2, e + 1, ix)
    ELSE Fin(m, e, ix)

\* the shift t with 2^(MantBits-1) <= (a/d) * 2^t < 2^MantBits, for a, d > 0
RECURSIVE ShiftOf(_, _, _)
ShiftOf(a, d, t) ==
    LET num == a * 2 ^ Max(t, 0)
        den == d * 2 ^ Max(-t, 0)
    IN  IF num < 2 ^ (MantBits - 1) * den THEN ShiftOf(a, d, t + 1)
        ELSE IF num >= 2 ^ MantBits * den THEN ShiftOf(a, d, t - 1)
        ELSE t

\* the TNumber nearest to s * (a / d) * 2^e (ties to even), a >= 0, d > 0
RoundQ(s, a, d, e, ix) ==
    IF a = 0 THEN Fin(0, 0, ix)
    ELSE LET t == ShiftOf(a, d, 0)
             num == a * 2 ^ Max(t, 0)
             den == d * 2 ^ Max(-t, 0)
             q == num \div den
             r == num % den
             up == (2 * r > den) \/ (2 * r = den /\ q % 2 = 1)
         IN  Normalize(s * (IF up THEN q + 1 ELSE q), e - t, ix \/ r # 0)

Lit(n) == Normalize(n, 0, FALSE)
Zero == Lit(0)

\* usize as f64
FromInt(n) == RoundQ(1, n, 1, 0, FALSE)

\* Apply(name, args) is the value of the call name(args).  The arithmetic and
\* compute_integral are called through it, so that a definition is evaluated
\* by reference wherever it is used.
RECURSIVE Apply(_, _)

Neg(x) == [x EXCEPT !.m = -x.m]

\* operands further apart than this many binary places: the smaller one is
\* below a quarter of the last place of the larger one
FarApart == 2 * MantBits + 2

AddValues(x, y) ==
    LET ix == x.ix \/ y.ix
    IN  IF x.k = "nan" \/ y.k = "nan" THEN NaN(ix)
        ELSE IF x.k = "inf" /\ y.k = "inf"
             THEN IF x.m = y.m THEN Inf(x.m, ix) ELSE NaN(ix)
        ELSE IF x.k = "inf" THEN Inf(x.m, ix)
        ELSE IF y.k = "inf" THEN Inf(y.m, ix)
        ELSE IF x.m = 0 THEN Fin(y.m, y.e, ix)
        ELSE IF y.m = 0 THEN Fin(x.m, x.e, ix)
        ELSE IF x.e - y.e > FarApart THEN Fin(x.m, x.e, TRUE)
        ELSE IF y.e - x.e > FarApart THEN Fin(y.m, y.e, TRUE)
        ELSE LET le == Min(x.e, y.e)
                 n == x.m * 2 ^ (x.e - le) + y.m * 2 ^ (y.e - le)
             IN  RoundQ(Sign(n), AbsInt(n), 1, le, ix)

Add(x, y) == Apply("add", <<x, y>>)

Sub(x, y) == Add(x, Neg(y))

MulValues(x, y) ==
    LET ix == x.ix \/ y.ix
    IN  IF x.k = "nan" \/ y.k = "nan" THEN NaN(ix)
        ELSE IF x.k = "inf" \/ y.k = "inf"
             THEN IF x.m = 0 \/ y.m = 0 THEN NaN(ix)
                  ELSE Inf(Sign(x.m) * Sign(y.m), ix)
        ELSE RoundQ(Sign(x.m) * Sign(y.m), AbsInt(x.m) * AbsInt(y.m), 1, x.e + y.e, ix)

Mul(x, y) == Apply("mul", <<x, y>>)

DivValues(x, y) ==
    LET ix == x.ix \/ y.ix
    IN  IF x.k = "nan" \/ y.k = "nan" THEN NaN(ix)
        ELSE IF x.k = "inf"
             THEN IF y.k = "inf" THEN NaN(ix)
                  ELSE Inf(x.m * (IF y.m < 0 THEN -1 ELSE 1), ix)
        ELSE IF y.k = "inf" THEN Fin(0, 0, ix)
        ELSE IF y.m = 0
             THEN IF x.m = 0 THEN NaN(ix) ELSE Inf(Sign(x.m), ix)
        ELSE RoundQ(Sign(x.m) * Sign(y.m), AbsInt(x.m), AbsInt(y.m), x.e - y.e, ix)

Div(x, y) == Apply("div", <<x, y>>)

\* x < y on TNumber (false when either is NaN)
Lt(x, y) ==
    IF x.k = "nan" \/ y.k = "nan" THEN FALSE
    ELSE IF x.k = "inf" THEN x.m < 0 /\ ~(y.k = "inf" /\ y.m < 0)
    ELSE IF y.k = "inf" THEN y.m > 0
    ELSE IF x.m = 0 \/ y.m = 0 \/ Sign(x.m) # Sign(y.m) THEN x.m < y.m
    ELSE IF x.e - y.e > FarApart THEN x.m < 0
    ELSE IF y.e - x.e > FarApart THEN y.m > 0
    ELSE LET le == Min(x.e, y.e)
         IN  x.m * 2 ^ (x.e - le) < y.m * 2 ^ (y.e - le)

Gt(x, y) == Lt(y, x)

\* f64::powi with a non-negative exponent: repeated multiplication
RECURSIVE Powi(_, _)
Powi(x, n) == IF n = 0 THEN Lit(1) ELSE IF n = 1 THEN x ELSE Mul(Powi(x, n - 1), x)

(***************************************************************************)
(* Functions, methods and the quadrature rules.                            *)
(***************************************************************************)
F0 == [kind |-> "f0", a |-> Zero, b |-> Zero]
F1 == [kind |-> "f1", a |-> Zero, b |-> Zero]
FUNCTIONS == <<F0, F1>>

\* |x| a * x + b and |x| b: the callables the rules are also applied to
Linear(a, b) == [kind |-> "linear", a |-> a, b |-> b]
Constant(c) == [kind |-> "constant", a |-> Zero, b |-> c]

\* function(x)
Call(function, x) ==
    CASE function.kind = "f0" ->
           Sub(Add(Sub(Mul(Lit(2), Powi(x, 3)), Mul(Lit(2), Powi(x, 2))),
                   Mul(Lit(7), x)), Lit(14))
      [] function.kind = "f1" ->
           Sub(Add(Sub(Mul(Lit(-3), Powi(x, 3)), Mul(Lit(5), Powi(x, 2))),
                   Mul(Lit(4), x)), Lit(2))
      [] function.kind = "linear" -> Add(Mul(function.a, x), function.b)
      [] function.kind = "constant" -> function.b

Rectangle(mode) == [tag |-> "Rectangle", mode |-> mode]
Trapezoid == [tag |-> "Trapezoid", mode |-> "None"]
Sympthonm == [tag |-> "Sympthonm", mode |-> "None"]
RectangleMode == {"Left", "Center", "Right"}
ComputationMethod == {Rectangle(mode) : mode \in RectangleMode} \cup {Trapezoid, Sympthonm}

Range(start, end) == [start |-> start, end |-> end]
Config(range, number_of_splits) == [range |-> range, number_of_splits |-> number_of_splits]

\* the value of a call that panicked
Panic == [k |-> "panic", m |-> 0, e |-> 0, ix |-> FALSE]

\* mutant of len: the length taken without its sign
len_abs(range) ==
    LET d == Sub(range.end, range.start) IN [d EXCEPT !.m = AbsInt(d.m)]

len(range) == Sub(range.end, range.start)

compute_step_length(config) == Div(len(config.range), FromInt(config.number_of_splits))

\* The for loops of the rules.  XLoop(..., from, to, acc) is the loop variable
\* running from `from` to `to - 1` in order, starting with the accumulator
\* acc; the range is halved so that evaluation nests to a depth of
\* log2(number_of_splits), the order of the additions being that of the loop.

\* the body of the loop of solve_rectanlge: the new integral_sum
RectangleBody(config, mode, function, step_length, left_border_multiplier, integral_sum) ==
    LET half_step == Div(step_length, Lit(2))
        left_bound == Add(config.range.start,
                          Mul(step_length, FromInt(left_border_multiplier)))
        height == CASE mode = "Left" -> Call(function, left_bound)
                    [] mode = "Center" -> Call(function, Add(left_bound, half_step))
                    [] mode = "Right" -> Call(function, Add(left_bound, step_length))
        area == Mul(height, step_length)
    IN  Add(integral_sum, area)

RECURSIVE RectangleLoop(_, _, _, _, _, _, _)
RectangleLoop(config, mode, function, step_length, from, to, integral_sum) ==
    IF from >= to THEN integral_sum
    ELSE IF to = from + 1
    THEN RectangleBody(config, mode, function, step_length, from, integral_sum)
    ELSE LET mid == (from + to) \div 2
         IN  CHOOSE r \in
               {RectangleLoop(config, mode, function, step_length, mid, to, s) :
                  s \in {RectangleLoop(config, mode, function, step_length,
                                       from, mid, integral_sum)}} : TRUE

solve_rectanlge(config, mode, function) ==
    RectangleLoop(config, mode, function, compute_step_length(config),
                  0, config.number_of_splits, Zero)

\* the body of the loop of solve_trapezoid: the new sum_of_intermediate_points
TrapezoidBody(config, function, step_length, point_index, sum_of_intermediate_points) ==
    LET point_x == Add(config.range.start, Mul(step_length, FromInt(point_index)))
        height == Call(function, point_x)
    IN  Add(sum_of_intermediate_points, height)

RECURSIVE TrapezoidLoop(_, _, _, _, _, _)
TrapezoidLoop(config, function, step_length, from, to, sum_of_intermediate_points) ==
    IF from >= to THEN sum_of_intermediate_points
    ELSE IF to = from + 1
    THEN TrapezoidBody(config, function, step_length, from, sum_of_intermediate_points)
    ELSE LET mid == (from + to) \div 2
         IN  CHOOSE r \in
               {TrapezoidLoop(config, function, step_length, mid, to, s) :
                  s \in {TrapezoidLoop(config, function, step_length,
                                       from, mid, sum_of_intermediate_points)}} : TRUE

\* mutant of solve_trapezoid: the loop of intermediate points starts at 0
solve_trapezoid_from_zero(config, function) ==
    LET step_length == compute_step_length(config)
        first_point == Call(function, config.range.start)
        end_point == Call(function, config.range.end)
        sum_of_intermediate_points ==
            TrapezoidLoop(config, function, step_length, 0, config.number_of_splits, Zero)
    IN  Mul(Div(step_length, Lit(2)),
            Add(Add(first_point, end_point), Mul(Lit(2), sum_of_intermediate_points)))

solve_trapezoid(config, function) ==
    LET step_length == compute_step_length(config)
        first_point == Call(function, config.range.start)
        end_point == Call(function, config.range.end)
        sum_of_intermediate_points ==
            TrapezoidLoop(config, function, step_length, 1, config.number_of_splits, Zero)
    IN  Mul(Div(step_length, Lit(2)),
            Add(Add(first_point, end_point), Mul(Lit(2), sum_of_intermediate_points)))

\* mutant of SimpthonBody: the parity test inverted
SimpthonBodySwapped(config, function, step_length, index, sums) ==
    LET point_x == Add(config.range.start, Mul(step_length, FromInt(index)))
        height == Call(function, point_x)
    IN  IF index % 2 = 1
        THEN <<sums[1], Add(sums[2], height)>>
        ELSE <<Add(sums[1], height), sums[2]>>

\* the body of the loop of solve_simpthon: the new <<odd_sum, even_sum>>
SimpthonBody(config, function, step_length, index, sums) ==
    LET point_x == Add(config.range.start, Mul(step_length, FromInt(index)))
        height == Call(function, point_x)
    IN  IF index % 2 = 0
        THEN <<sums[1], Add(sums[2], height)>>
        ELSE <<Add(sums[1], height), sums[2]>>

RECURSIVE SimpthonLoop(_, _, _, _, _, _)
SimpthonLoop(config, function, step_length, from, to, sums) ==
    IF from >= to THEN sums
    ELSE IF to = from + 1
    THEN SimpthonBody(config, function, step_length, from, sums)
    ELSE LET mid == (from + to) \div 2
         IN  CHOOSE r \in
               {SimpthonLoop(config, function, step_length, mid, to, s) :
                  s \in {SimpthonLoop(config, function, step_length, from, mid, sums)}} :
               TRUE

solve_simpthon(config, function) ==
    IF config.number_of_splits % 2 # 0 THEN Panic
    ELSE LET step_length == compute_step_length(config)
             first_point == Call(function, config.range.start)
             end_point == Call(function, config.range.end)
             sums == SimpthonLoop(config, function, step_length,
                                  1, config.number_of_splits, <<Zero, Zero>>)
             odd_sum == sums[1]
             even_sum == sums[2]
         IN  Mul(Div(step_length, Lit(3)),
                 Add(Add(Add(first_point, Mul(Lit(4), odd_sum)), Mul(Lit(2), even_sum)),
                     end_point))

compute_integral_body(range, number_of_splits, method, function) ==
    LET config == Config(range, number_of_splits)
    IN  CASE method.tag = "Rectangle" -> solve_rectanlge(config, method.mode, function)
          [] method.tag = "Trapezoid" -> solve_trapezoid(config, function)
          [] method.tag = "Sympthonm" -> solve_simpthon(config, function)

Apply(name, args) ==
    CASE name = "add" -> AddValues(args[1], args[2])
      [] name = "mul" -> MulValues(args[1], args[2])
      [] name = "div" -> DivValues(args[1], args[2])
      [] name = "compute_integral" ->
           compute_integral_body(args[1], args[2], args[3], args[4])

compute_integral(range, number_of_splits, method, function) ==
    Apply("compute_integral", <<range, number_of_splits, method, function>>)

\* mutant of runge_rule: the operands of the difference exchanged
runge_rule_swapped(half, full, method) ==
    LET k == IF method.tag = "Sympthonm" THEN 4 ELSE 2
    IN  Div(Sub(full, half), Sub(Powi(Lit(2), k), Lit(1)))

runge_rule(half, full, method) ==
    LET k == IF method.tag = "Sympthonm" THEN 4 ELSE 2
    IN  Div(Sub(half, full), Sub(Powi(Lit(2), k), Lit(1)))

(***************************************************************************)
(* The interactive session of start(): the prompts, then the loop.         *)
(***************************************************************************)
VARIABLES
    pc,                \* where start() is
    function,          \* FUNCTIONS[function_index]
    method,
    range,
    epsilon,
    number_of_splits,
    iterations,        \* iterations of the for loop completed without success
    output,            \* what has been printed: <<>> or <<[integral, splits]>>
    overflow_checks,   \* whether the build panics on integer overflow (else it wraps)
    error_message,     \* the validator message on screen
    initial_splits,    \* history: the answer accepted by the splits prompt
    calls,             \* history: the split counts passed to compute_integral
                       \* in the latest iteration, and that iteration's index
    ev                 \* a single rule evaluation (RuleSpec)

driver_vars == <<pc, function, method, range, epsilon, number_of_splits, iterations,
                 output, overflow_checks, error_message, initial_splits, calls>>
vars == <<pc, function, method, range, epsilon, number_of_splits, iterations,
          output, overflow_checks, error_message, initial_splits, calls, ev>>

Unset == [k |-> "unset", m |-> 0, e |-> 0, ix |-> FALSE]
NoFunction == [kind |-> "unset", a |-> Zero, b |-> Zero]
NoMethod == [tag |-> "unset", mode |-> "None"]
NoCalls == [iteration |-> 0, splits |-> <<>>]
NoEvaluation == [function |-> NoFunction, range |-> Range(Unset, Unset),
                 number_of_splits |-> 0, method |-> NoMethod,
                 forward |-> Unset, reversed |-> Unset]

\* the answers the user may give: a session is one answer to each prompt
Half == Fin(1, -1, FALSE)
Coarse == Fin(1, -4, FALSE)
Fine == Fin(1, -10, FALSE)
Session(fs, ms, rs, es, ns) ==
    [function : fs, method : ms, range : rs, epsilon : es, splits : ns]
Sessions ==
    Session({F0, F1, Linear(Lit(1), Zero), Linear(Lit(3), Lit(-1))},
            {Rectangle(mode) : mode \in RectangleMode},
            {Range(Zero, Lit(1)), Range(Lit(1), Zero), Range(Lit(-1), Lit(2))},
            {Half, Fine, Zero, Lit(-1)},
            {0, 1, 2, 3, 5, 2 ^ (WordBits - 1)})
    \cup
    Session({F0, Linear(Lit(1), Zero), Linear(Lit(3), Lit(-1))},
            {Trapezoid, Sympthonm},
            {Range(Zero, Lit(1)), Range(Lit(1), Zero)},
            {Half, Coarse, Zero},
            {1, 2, 3, 4, 6})
    \cup
    Session({Linear(Lit(1), Zero)}, {Trapezoid}, {Range(Zero, Lit(1))}, {Fine}, {6})
    \cup
    Session({Constant(Lit(3))}, {Trapezoid}, {Range(Zero, Lit(1))}, {Coarse},
            {2 ^ (WordBits - 1)})

Stage(p) ==
    CASE p = "select_function" -> 0
      [] p = "select_method" -> 1
      [] p = "select_mode" -> 2
      [] p = "prompt_start" -> 3
      [] p = "prompt_end" -> 4
      [] p = "prompt_epsilon" -> 5
      [] p = "prompt_splits" -> 6
      [] OTHER -> 7

\* session s agrees with the answers accepted so far
Agrees(s) ==
    /\ Stage(pc) > 0 => s.function = function
    /\ Stage(pc) > 1 => s.method.tag = method.tag
    /\ Stage(pc) > 2 => s.method = method
    /\ Stage(pc) > 3 => s.range.start = range.start
    /\ Stage(pc) > 4 => s.range.end = range.end
    /\ Stage(pc) > 5 => s.epsilon = epsilon

\* the validator of the epsilon prompt
EpsilonValid(value) == Gt(value, Zero)

\* mutant of SplitsValid: no parity check
SplitsValidNoParity(m, value) == TRUE

\* the validator of the splits prompt
SplitsValid(m, value) == ~(m.tag = "Sympthonm" /\ value % 2 = 1)

\* usize multiplication in a build without overflow checks
WrappingMul(a, b) == (a * b) % WordMod
Overflows(a, b) == a * b >= WordMod

Init ==
    /\ pc = "select_function"
    /\ function = NoFunction
    /\ method = NoMethod
    /\ range = Range(Unset, Unset)
    /\ epsilon = Unset
    /\ number_of_splits = 0
    /\ iterations = 0
    /\ output = <<>>
    /\ overflow_checks \in BOOLEAN
    /\ error_message = ""
    /\ initial_splits = 0
    /\ calls = NoCalls
    /\ ev = NoEvaluation

SelectFunction ==
    /\ pc = "select_function"
    /\ \E s \in Sessions : Agrees(s) /\ function' = s.function
    /\ pc' = "select_method"
    /\ UNCHANGED <<method, range, epsilon, number_of_splits, iterations, output,
                   overflow_checks, error_message, initial_splits, calls, ev>>

SelectMethod ==
    /\ pc = "select_method"
    /\ \E s \in Sessions :
         /\ Agrees(s)
         /\ IF s.method.tag = "Rectangle"
            THEN method' = [tag |-> "Rectangle", mode |-> "None"] /\ pc' = "select_mode"
            ELSE method' = s.method /\ pc' = "prompt_start"
    /\ UNCHANGED <<function, range, epsilon, number_of_splits, iterations, output,
                   overflow_checks, error_message, initial_splits, calls, ev>>

SelectMode ==
    /\ pc = "select_mode"
    /\ \E s \in Sessions : Agrees(s) /\ method' = s.method
    /\ pc' = "prompt_start"
    /\ UNCHANGED <<function, range, epsilon, number_of_splits, iterations, output,
                   overflow_checks, error_message, initial_splits, calls, ev>>

PromptStart ==
    /\ pc = "prompt_start"
    /\ \E s \in Sessions : Agrees(s) /\ range' = [range EXCEPT !.start = s.range.start]
    /\ pc' = "prompt_end"
    /\ UNCHANGED <<function, method, epsilon, number_of_splits, iterations, output,
                   overflow_checks, error_message, initial_splits, calls, ev>>

PromptEnd ==
    /\ pc = "prompt_end"
    /\ \E s \in Sessions : Agrees(s) /\ range' = [range EXCEPT !.end = s.range.end]
    /\ pc' = "prompt_epsilon"
    /\ UNCHANGED <<function, method, epsilon, number_of_splits, iterations, output,
                   overflow_checks, error_message, initial_splits, calls, ev>>

PromptEpsilon ==
    /\ pc = "prompt_epsilon"
    /\ \E s \in Sessions :
         /\ Agrees(s)
         /\ IF EpsilonValid(s.epsilon)
            THEN epsilon' = s.epsilon /\ pc' = "prompt_splits" /\ error_message' = ""
            ELSE /\ error_message' = "Should be strictly above zero!"
                 /\ UNCHANGED <<epsilon, pc>>
    /\ UNCHANGED <<function, method, range, number_of_splits, iterations, output,
                   overflow_checks, initial_splits, calls, ev>>

PromptSplits ==
    /\ pc = "prompt_splits"
    /\ \E s \in Sessions :
         /\ Agrees(s)
         /\ IF SplitsValid(method, s.splits)
            THEN /\ number_of_splits' = s.splits
                 /\ initial_splits' = s.splits
                 /\ pc' = "loop"
                 /\ error_message' = ""
            ELSE /\ error_message' = "Should be even!"
                 /\ UNCHANGED <<number_of_splits, initial_splits, pc>>
    /\ UNCHANGED <<function, method, range, epsilon, iterations, output,
                   overflow_checks, calls, ev>>

\* one iteration of the for loop (lines 133-148), up to its return, its panic or
\* the assignment that ends it
Iteration ==
    /\ pc = "loop"
    /\ iterations < MAX_ITERATIONS
    /\ \E integral \in {compute_integral(range, number_of_splits, method, function)} :
       \E number_of_splits_doubled \in {WrappingMul(number_of_splits, 2)} :
       \E double_splitted \in
            {compute_integral(range, number_of_splits_doubled, method, function)} :
       \E divergence \in {runge_rule(double_splitted, integral, method)} :
       LET Stop(where, passed) ==
               /\ pc' = where
               /\ calls' = [iteration |-> iterations, splits |-> passed]
               /\ UNCHANGED <<number_of_splits, iterations, output>>
       IN  IF integral = Panic
           THEN Stop("panic_odd", <<number_of_splits>>)
           ELSE IF overflow_checks /\ Overflows(number_of_splits, 2)
           THEN Stop("panic_overflow", <<number_of_splits>>)
           ELSE IF double_splitted = Panic
           THEN Stop("panic_odd", <<number_of_splits, number_of_splits_doubled>>)
           ELSE IF Lt(divergence, epsilon)
           THEN /\ pc' = "success"
                /\ output' = <<[integral |-> double_splitted,
                                splits |-> number_of_splits_doubled]>>
                /\ calls' = [iteration |-> iterations,
                             splits |-> <<number_of_splits, number_of_splits_doubled>>]
                /\ UNCHANGED <<number_of_splits, iterations>>
           ELSE IF overflow_checks /\ Overflows(number_of_splits_doubled, 2)
           THEN Stop("panic_overflow", <<number_of_splits, number_of_splits_doubled>>)
           ELSE /\ number_of_splits' = WrappingMul(number_of_splits_doubled, 2)
                /\ iterations' = iterations + 1
                /\ calls' = [iteration |-> iterations,
                             splits |-> <<number_of_splits, number_of_splits_doubled>>]
                /\ UNCHANGED <<pc, output>>
    /\ UNCHANGED <<function, method, range, epsilon, overflow_checks, error_message,
                   initial_splits, ev>>

\* the panic after the loop (lines 150-155)
Exhausted ==
    /\ pc = "loop"
    /\ iterations = MAX_ITERATIONS
    /\ pc' = "panic_max"
    /\ UNCHANGED <<function, method, range, epsilon, number_of_splits, iterations,
                   output, overflow_checks, error_message, initial_splits, calls, ev>>

Next ==
    \/ SelectFunction
    \/ SelectMethod
    \/ SelectMode
    \/ PromptStart
    \/ PromptEnd
    \/ PromptEpsilon
    \/ PromptSplits
    \/ Iteration
    \/ Exhausted

Spec == Init /\ [][Next]_vars

(***************************************************************************)
(* A rule applied once to an interval and once to the reversed interval.   *)
(***************************************************************************)
MaxSplits == 8

RuleFunctions ==
    {F0, F1, Linear(Lit(1), Zero), Linear(Lit(3), Lit(-1)),
     Constant(Lit(3)), Constant(Fin(-5, -1, FALSE))}
RuleRanges ==
    {Range(Zero, Lit(1)), Range(Lit(-1), Lit(2)), Range(Zero, Lit(3)),
     Range(Fin(1, -1, FALSE), Lit(2)), Range(Lit(2), Lit(-4))}

RuleInit ==
    /\ pc = "rules"
    /\ function = NoFunction
    /\ method = NoMethod
    /\ range = Range(Unset, Unset)
    /\ epsilon = Unset
    /\ number_of_splits = 0
    /\ iterations = 0
    /\ output = <<>>
    /\ overflow_checks = FALSE
    /\ error_message = ""
    /\ initial_splits = 0
    /\ calls = NoCalls
    /\ ev \in [function : RuleFunctions, range : RuleRanges,
               number_of_splits : 0..MaxSplits, method : ComputationMethod,
               forward : {Unset}, reversed : {Unset}]

Evaluate ==
    /\ ev.forward = Unset
    /\ ev' = [ev EXCEPT !.forward =
                 compute_integral(ev.range, ev.number_of_splits, ev.method, ev.function)]
    /\ UNCHANGED driver_vars

EvaluateReversed ==
    /\ ev.reversed = Unset
    /\ ev' = [ev EXCEPT !.reversed =
                 compute_integral(Range(ev.range.end, ev.range.start),
                                  ev.number_of_splits, ev.method, ev.function)]
    /\ UNCHANGED driver_vars

RuleNext == Evaluate \/ EvaluateReversed

RuleSpec == RuleInit /\ [][RuleNext]_vars

(***************************************************************************)
(* Properties.                                                             *)
(***************************************************************************)
Terminal == {"success", "panic_max", "panic_overflow", "panic_odd"}

SameValue(x, y) == x.k = y.k /\ x.m = y.m /\ x.e = y.e
\* a finite value produced without any rounding
Exact(x) == x.k = "fin" /\ ~x.ix
Abs(x) == [x EXCEPT !.m = AbsInt(x.m)]

\* arithmetic on finite values without rounding
XAdd(x, y) ==
    LET le == Min(x.e, y.e)
    IN  Normalize(x.m * 2 ^ (x.e - le) + y.m * 2 ^ (y.e - le), le, FALSE)
XSub(x, y) == XAdd(x, Neg(y))
XMul(x, y) == Normalize(x.m * y.m, x.e + y.e, FALSE)
XHalf(x) == Normalize(x.m, x.e - 1, FALSE)

\* the integral of a * x + b over (start, end): a * (end^2 - start^2) / 2 + b * (end - start)
LinearIntegral(f, r) ==
    XAdd(XMul(f.a, XHalf(XSub(XMul(r.end, r.end), XMul(r.start, r.start)))),
         XMul(f.b, XSub(r.end, r.start)))

\* the first iteration of the loop has run
FirstIterationDone == calls.splits # <<>>

\* C1 (as claimed): for initial_splits >= 1 the loop ends either in success or,
\* after exactly MAX_ITERATIONS failed iterations, in the non-convergence panic
\* with nothing printed; it never runs more than MAX_ITERATIONS iterations.
C1_EndsInSuccessOrExhaustion ==
    /\ iterations <= MAX_ITERATIONS
    /\ (pc \in Terminal /\ initial_splits >= 1) =>
          \/ pc = "success" /\ output # <<>>
          \/ pc = "panic_max" /\ iterations = MAX_ITERATIONS /\ output = <<>>

\* C2: an iteration ends in success exactly when divergence < epsilon, where
\* divergence = (refined - integral) / (2^k - 1), integral = Rule(current_splits),
\* refined = Rule(2 * current_splits), k = 4 for Simpson and 2 otherwise; the
\* loop goes on to the next iteration only when the test failed; and what is
\* printed is the pair (refined, 2 * current_splits) of that iteration.
C2_SuccessIffConverged ==
    [][ (pc = "loop" /\ pc' \in {"loop", "success"} /\ calls' # calls) =>
          LET doubled == (2 * number_of_splits) % WordMod
              integral == compute_integral(range, number_of_splits, method, function)
              refined == compute_integral(range, doubled, method, function)
              divisor == IF method.tag = "Sympthonm" THEN Lit(15) ELSE Lit(3)
              divergence == Div(Sub(refined, integral), divisor)
          IN  /\ pc' = "success" <=> Lt(divergence, epsilon)
              /\ pc' = "success" =>
                    output' = <<[integral |-> refined, splits |-> doubled]>>
              /\ pc' = "loop" => iterations' = iterations + 1 /\ output' = output
      ]_vars

C2_Witness == pc = "success" /\ iterations >= 1

\* C3 (as claimed): in iteration j the rule is invoked with exactly
\* initial_splits * 4^j and 2 * initial_splits * 4^j splits.  (From
\* initial_splits >= 1 and j > WordBits on the claimed counts exceed every usize.)
C3_SplitsAreInitialTimesPowerOfFour ==
    FirstIterationDone =>
        LET j == calls.iteration
        IN  IF initial_splits = 0
            THEN \A i \in DOMAIN calls.splits : calls.splits[i] = 0
            ELSE /\ j <= WordBits
                 /\ calls.splits[1] = initial_splits * 4 ^ j
                 /\ Len(calls.splits) = 2 => calls.splits[2] = 2 * initial_splits * 4 ^ j

\* C4 (as claimed): nothing is printed when initial_splits is 0, when
\* epsilon <= 0, or when the method is Simpson and initial_splits is odd.
C4_InvalidInputPrintsNothing ==
    output # <<>> =>
        /\ initial_splits # 0
        /\ Gt(epsilon, Zero)
        /\ ~(method = Sympthonm /\ initial_splits % 2 = 1)

\* C5 (as claimed): from initial_splits >= 1, every split count passed to a
\* rule is >= 1.
C5_SplitsPassedArePositive ==
    initial_splits >= 1 => \A i \in DOMAIN calls.splits : calls.splits[i] >= 1

\* C6: with the method Simpson, every split count passed to the rule is even
\* and the rule's panic on an odd count is never reached.
C6_SimpsonSplitsEven ==
    method = Sympthonm =>
        /\ pc # "panic_odd"
        /\ pc \in {"loop"} \cup Terminal => number_of_splits % 2 = 0
        /\ \A i \in DOMAIN calls.splits : calls.splits[i] % 2 = 0

C6_Witness ==
    /\ method = Sympthonm
    /\ calls.iteration >= 1
    /\ Len(calls.splits) = 2
    /\ initial_splits >= 2

\* C7 (as claimed): on success the magnitude of the Runge estimate of the
\* printed value is below epsilon.  (Stated for the runs in which no split
\* count has wrapped.)
C7_SuccessMeansSmallEstimate ==
    (pc = "success" /\ initial_splits >= 1 /\ output[1].splits = 2 * number_of_splits) =>
        Lt(Abs(runge_rule(output[1].integral,
                          compute_integral(range, number_of_splits, method, function),
                          method)),
           epsilon)

C8_Case ==
    /\ function.kind = "linear"
    /\ method \in {Trapezoid, Rectangle("Center")}
    /\ initial_splits >= 1
    /\ FirstIterationDone

C8_FirstIterationExact ==
    /\ pc = "success"
    /\ iterations = 0
    /\ SameValue(output[1].integral, LinearIntegral(function, range))
    /\ output[1].splits = 2 * initial_splits

\* C8 (as claimed): for a linear function and Trapezoid or Rectangle(Center),
\* the first iteration succeeds and prints the exact integral and 2 * N.
C8_LinearSucceedsExactly == C8_Case => C8_FirstIterationExact

\* C8 (amended): the same, provided that no floating-point operation of the two
\* rule evaluations of the first iteration rounds.
C8_LinearSucceedsExactlyWithoutRounding ==
    (/\ C8_Case
     /\ Exact(compute_integral(range, initial_splits, method, function))
     /\ Exact(compute_integral(range, (2 * initial_splits) % WordMod, method, function)))
    => C8_FirstIterationExact

C8_Witness ==
    /\ C8_Case
    /\ function.a.m # 0
    /\ initial_splits >= 2
    /\ Exact(compute_integral(range, initial_splits, method, function))
    /\ Exact(compute_integral(range, (2 * initial_splits) % WordMod, method, function))
    /\ pc = "success"

C9_Case ==
    /\ ev.forward \notin {Unset, Panic}
    /\ ev.function.kind = "constant"
    /\ ev.number_of_splits >= 1

C9_Product == XMul(ev.function.b, XSub(ev.range.end, ev.range.start))

\* C9 (as claimed): for a constant function c every rule returns exactly
\* c * (end - start), for every split count N >= 1 (even for Simpson).
C9_ConstantIsExact == C9_Case => SameValue(ev.forward, C9_Product)

\* C9 (amended): the same, provided that no floating-point operation of the
\* evaluation rounds.
C9_ConstantIsExactWithoutRounding ==
    (C9_Case /\ Exact(ev.forward)) => SameValue(ev.forward, C9_Product)

C9_Witness ==
    /\ C9_Case
    /\ Exact(ev.forward)
    /\ ev.method = Sympthonm
    /\ ev.number_of_splits >= 2
    /\ ev.forward.m # 0

C10_Case ==
    /\ ev.forward \notin {Unset, Panic}
    /\ ev.reversed \notin {Unset, Panic}
    /\ ev.number_of_splits >= 1

\* the rule whose sample points over (start, end) are those of the method over
\* (end, start)
Mirrored(m) ==
    IF m = Rectangle("Left") THEN Rectangle("Right")
    ELSE IF m = Rectangle("Right") THEN Rectangle("Left")
    ELSE m

\* C10 (as claimed): a rule over the reversed interval returns the negation of
\* the same rule and mode over the interval.
C10_ReversedNegates == C10_Case => SameValue(ev.reversed, Neg(ev.forward))

\* C10 (amended): a rule over the reversed interval returns the negation of the
\* mirrored rule over the interval (Left and Right exchanged, the other rules
\* unchanged), provided that no floating-point operation of the two
\* evaluations rounds.
C10_ReversedNegatesMirrored ==
    C10_Case =>
        LET mirrored == compute_integral(ev.range, ev.number_of_splits,
                                         Mirrored(ev.method), ev.function)
        IN  (Exact(ev.reversed) /\ Exact(mirrored)) =>
                SameValue(ev.reversed, Neg(mirrored))

C10_Witness ==
    /\ C10_Case
    /\ ev.method = Rectangle("Left")
    /\ ev.function.kind # "constant"
    /\ ev.number_of_splits >= 2
    /\ Exact(ev.reversed)
    /\ Exact(compute_integral(ev.range, ev.number_of_splits, Rectangle("Right"),
                              ev.function))
    /\ ~SameValue(ev.reversed, Neg(ev.forward))

====
